---- MODULE Spec2Model ----
(***************************************************************************)
(* Model of generateSub2Gif.py: main -> process_video, a linear pipeline   *)
(*   load_whisper_model -> transcribe_video -> generate_word_by_word_srt   *)
(*   -> burn_subtitles -> generate_palette -> convert_to_gif.              *)
(*                                                                         *)
(* Strings are sequences of one-character strings.  Paths are sequences of *)
(* tokens of a prefix-free alphabet, so two paths are equal as strings     *)
(* exactly when they are equal as token sequences.  Times are Python       *)
(* floats, modelled bit for bit: every operation rounds its exact result   *)
(* to 53 binary digits.                                                    *)
(***************************************************************************)
EXTENDS Integers, Sequences, FiniteSets, TLC

\* ------------------------------------------------------------------ bounds
MaxPathLen == 3
MaxArgs == 2
MaxWords == 3
MaxSegs == 3

\* ------------------------------------------------ natural numbers, any size
\* A natural number is the sequence of its digits in base LimbBase, the
\* least significant first, without leading zero digits: <<>> is 0.
LimbBase == 2^15

LimbBits == 15

RECURSIVE BigNorm(_)
BigNorm(a) ==
    IF a # <<>> /\ a[Len(a)] = 0 THEN BigNorm(SubSeq(a, 1, Len(a) - 1)) ELSE a

RECURSIVE BigOfInt(_)
BigOfInt(n) ==
    IF n = 0 THEN <<>> ELSE <<n % LimbBase>> \o BigOfInt(n \div LimbBase)

RECURSIVE BigToInt(_)
\* the value of a, which must fit the integers of the checker
BigToInt(a) == IF a = <<>> THEN 0 ELSE a[1] + LimbBase * BigToInt(Tail(a))

Limb(a, i) == IF i <= Len(a) THEN a[i] ELSE 0

RECURSIVE BigAddFrom(_, _, _, _)
BigAddFrom(a, b, i, carry) ==
    IF i > Len(a) /\ i > Len(b)
    THEN IF carry = 0 THEN <<>> ELSE <<carry>>
    ELSE LET t == Limb(a, i) + Limb(b, i) + carry
         IN  <<t % LimbBase>> \o BigAddFrom(a, b, i + 1, t \div LimbBase)

BigAdd(a, b) == BigAddFrom(a, b, 1, 0)

RECURSIVE BigSubFrom(_, _, _, _)
BigSubFrom(a, b, i, borrow) ==
    IF i > Len(a) THEN <<>>
    ELSE LET t == a[i] - Limb(b, i) - borrow
         IN  <<t % LimbBase>> \o BigSubFrom(a, b, i + 1, IF t < 0 THEN 1 ELSE 0)

\* a - b for a >= b
BigSub(a, b) == BigNorm(BigSubFrom(a, b, 1, 0))

RECURSIVE BigLessFrom(_, _, _)
BigLessFrom(a, b, i) ==
    IF i = 0 THEN FALSE
    ELSE IF a[i] # b[i] THEN a[i] < b[i]
    ELSE BigLessFrom(a, b, i - 1)

BigLess(a, b) ==
    IF Len(a) # Len(b) THEN Len(a) < Len(b) ELSE BigLessFrom(a, b, Len(a))

RECURSIVE BigMulFrom(_, _, _, _)
BigMulFrom(a, k, i, carry) ==
    IF i > Len(a)
    THEN IF carry = 0 THEN <<>> ELSE <<carry>>
    ELSE LET t == a[i] * k + carry
         IN  <<t % LimbBase>> \o BigMulFrom(a, k, i + 1, t \div LimbBase)

\* a * k for 0 <= k < LimbBase
BigMulSmall(a, k) == IF k = 0 THEN <<>> ELSE BigMulFrom(a, k, 1, 0)

RECURSIVE BigDivFrom(_, _, _, _)
\* the digits of a \div k below digit i + 1, given the remainder so far
BigDivFrom(a, k, i, rem) ==
    IF i = 0 THEN <<>>
    ELSE LET t == rem * LimbBase + a[i]
         IN  Append(BigDivFrom(a, k, i - 1, t % k), t \div k)

\* a \div k for 0 < k < LimbBase
BigDivSmall(a, k) == BigNorm(BigDivFrom(a, k, Len(a), 0))

RECURSIVE BigModFrom(_, _, _, _)
BigModFrom(a, k, i, rem) ==
    IF i = 0 THEN rem ELSE BigModFrom(a, k, i - 1, (rem * LimbBase + a[i]) % k)

\* a % k for 0 < k < LimbBase
BigModSmall(a, k) == BigModFrom(a, k, Len(a), 0)

\* a * 2^s
BigShiftLeft(a, s) ==
    IF a = <<>> THEN <<>>
    ELSE [i \in 1..(s \div LimbBits) |-> 0] \o BigMulSmall(a, 2^(s % LimbBits))

\* a \div 2^s
BigShiftRight(a, s) ==
    IF s \div LimbBits >= Len(a) THEN <<>>
    ELSE BigDivSmall(SubSeq(a, (s \div LimbBits) + 1, Len(a)), 2^(s % LimbBits))

RECURSIVE SmallBitLen(_)
SmallBitLen(n) == IF n = 0 THEN 0 ELSE 1 + SmallBitLen(n \div 2)

\* the number of binary digits of a
BigBitLen(a) ==
    IF a = <<>> THEN 0 ELSE LimbBits * (Len(a) - 1) + SmallBitLen(a[Len(a)])

BigIsEven(a) == a = <<>> \/ a[1] % 2 = 0

\* a \div 2^s rounded to the nearest integer, ties to the even one
BigShiftRightRound(a, s) ==
    IF s = 0 THEN a
    ELSE LET q    == BigShiftRight(a, s)
             rem  == BigSub(a, BigShiftLeft(q, s))
             half == BigShiftLeft(<<1>>, s - 1)
         IN  IF BigLess(rem, half) THEN q
             ELSE IF BigLess(half, rem) THEN BigAdd(q, <<1>>)
             ELSE IF BigIsEven(q) THEN q ELSE BigAdd(q, <<1>>)

\* ------------------------------------------------------------- floats
\* A Python float x >= 0 (an IEEE 754 binary64 number) is the record
\* [m, e] with x = m * 2^e, m odd, or [<<>>, 0] for 0.0: every finite float
\* has exactly one such record.  The result of an operation is the exact
\* result rounded to Precision binary digits, ties to even, as the hardware
\* rounds it (overflow, subnormal numbers and signs do not occur for the
\* times of a video).
Precision == 53

RECURSIVE StripZeroBits(_, _)
StripZeroBits(m, e) ==
    IF m = <<>> THEN [m |-> <<>>, e |-> 0]
    ELSE IF m[1] = 0 THEN StripZeroBits(Tail(m), e + LimbBits)
    ELSE IF m[1] % 2 = 0 THEN StripZeroBits(BigDivSmall(m, 2), e + 1)
    ELSE [m |-> m, e |-> e]

\* the float nearest to m * 2^e
FloatRound(m, e) ==
    LET extra == BigBitLen(m) - Precision
    IN  IF extra <= 0 THEN StripZeroBits(m, e)
        ELSE StripZeroBits(BigShiftRightRound(m, extra), e + extra)

FloatOfInt(n) == FloatRound(BigOfInt(n), 0)

MinOf(x, y) == IF x < y THEN x ELSE y

\* the numerator of x over 2^(-e), for e <= x.e
Aligned(x, e) == BigShiftLeft(x.m, x.e - e)

FloatAdd(x, y) ==
    LET e == MinOf(x.e, y.e)
    IN  FloatRound(BigAdd(Aligned(x, e), Aligned(y, e)), e)

\* x - y for x >= y
FloatSub(x, y) ==
    LET e == MinOf(x.e, y.e)
    IN  FloatRound(BigSub(Aligned(x, e), Aligned(y, e)), e)

FloatLess(x, y) ==
    LET e == MinOf(x.e, y.e)
    IN  BigLess(Aligned(x, e), Aligned(y, e))

\* x * k for an integer 0 <= k < LimbBase
FloatMulInt(x, k) == FloatRound(BigMulSmall(x.m, k), x.e)

\* x / k for an integer 0 < k < LimbBase: the quotient to 75 more binary
\* digits, and one digit more that says whether anything is left
FloatDivInt(x, k) ==
    LET num    == BigShiftLeft(x.m, 75)
        q      == BigDivSmall(num, k)
        sticky == IF BigModSmall(num, k) = 0 THEN <<>> ELSE <<1>>
    IN  FloatRound(BigAdd(BigShiftLeft(q, 1), sticky), x.e - 76)

\* floor(x) as an integer
FloatFloor(x) ==
    IF x.e >= 0 THEN BigToInt(BigShiftLeft(x.m, x.e))
    ELSE BigToInt(BigShiftRight(x.m, -x.e))

\* round(x) as an integer: the nearest one, ties to the even one
FloatRoundToInt(x) ==
    IF x.e >= 0 THEN BigToInt(BigShiftLeft(x.m, x.e))
    ELSE BigToInt(BigShiftRightRound(x.m, -x.e))

\* ------------------------------------------------------------------ strings
DigitChars == <<"0", "1", "2", "3", "4", "5", "6", "7", "8", "9">>

RECURSIVE Digits(_)
\* str(n) for n >= 0
Digits(n) ==
    IF n < 10 THEN <<DigitChars[n + 1]>>
    ELSE Digits(n \div 10) \o <<DigitChars[(n % 10) + 1]>>

RECURSIVE ZeroPad(_, _)
\* format(n, "0<width>d") for n >= 0: at least width digits, never cut
ZeroPad(s, width) == IF Len(s) >= width THEN s ELSE ZeroPad(<<"0">> \o s, width)

FormatInt(n, width) == ZeroPad(Digits(n), width)

\* srt_timestamp(seconds), seconds >= 0.  With whole = int(seconds):
\* seconds // 3600 is whole // 3600, seconds % 3600 and seconds % 60 are
\* exact (fmod), so that minutes and secs are those of whole; the fraction
\* seconds - whole is exact as well, its product with 1000 is rounded.
srt_timestamp(seconds) ==
    LET whole   == FloatFloor(seconds)
        hours   == whole \div 3600
        minutes == (whole % 3600) \div 60
        secs    == whole % 60
        millis  == FloatRoundToInt(
                     FloatMulInt(FloatSub(seconds, FloatOfInt(whole)), 1000))
    IN  FormatInt(hours, 2) \o <<":">> \o FormatInt(minutes, 2) \o <<":">>
          \o FormatInt(secs, 2) \o <<",">> \o FormatInt(millis, 3)

Whitespace == {" ", "\t", "\n"}

RECURSIVE SplitFrom(_, _, _, _)
\* str.split(): the maximal runs of non-whitespace characters, in order
SplitFrom(text, i, word, words) ==
    IF i > Len(text)
    THEN IF word = <<>> THEN words ELSE Append(words, word)
    ELSE IF text[i] \in Whitespace
         THEN SplitFrom(text, i + 1, <<>>,
                        IF word = <<>> THEN words ELSE Append(words, word))
         ELSE SplitFrom(text, i + 1, Append(word, text[i]), words)

Split(text) == SplitFrom(text, 1, <<>>, <<>>)

RECURSIVE Join(_, _)
\* sep.join(lines)
Join(lines, sep) ==
    IF lines = <<>> THEN <<>>
    ELSE IF Len(lines) = 1 THEN lines[1]
    ELSE lines[1] \o sep \o Join(Tail(lines), sep)

\* str.strip(): leading and trailing whitespace removed
RECURSIVE LStrip(_)
LStrip(text) ==
    IF text # <<>> /\ Head(text) \in Whitespace THEN LStrip(Tail(text)) ELSE text

RECURSIVE RStrip(_)
RStrip(text) ==
    IF text # <<>> /\ text[Len(text)] \in Whitespace
    THEN RStrip(SubSeq(text, 1, Len(text) - 1))
    ELSE text

Strip(text) == LStrip(RStrip(text))

\* ------------------------------------------- generate_word_by_word_srt
\* words of a segment (lines 68-70)
SegmentWords(segment) == Split(Strip(segment.text))

\* lines 74-75
word_duration(segment) ==
    FloatDivInt(FloatSub(segment.end, segment.start), Len(SegmentWords(segment)))

\* line 78, i counted from 0 as enumerate does
word_start(segment, i) ==
    FloatAdd(segment.start, FloatMulInt(word_duration(segment), i))

\* mutant of word_end: the word's own index instead of the next one
word_end_same_index(segment, i) ==
    FloatAdd(segment.start, FloatMulInt(word_duration(segment), i))

\* line 79
word_end(segment, i) ==
    FloatAdd(segment.start, FloatMulInt(word_duration(segment), i + 1))

Arrow == <<" ", "-", "-", ">", " ">>

\* the four lines appended for one word (lines 81-87)
CueLines(cue_index, segment, i, word) ==
    << Digits(cue_index),
       srt_timestamp(word_start(segment, i)) \o Arrow
           \o srt_timestamp(word_end(segment, i)),
       word,
       <<>> >>

RECURSIVE WordLoop(_, _, _, _)
\* the inner loop (lines 77-88) from word i (0-based) on; acc holds srt_lines
\* and cue_index
WordLoop(segment, words, i, acc) ==
    IF i >= Len(words) THEN acc
    ELSE WordLoop(segment, words, i + 1,
           [srt_lines |-> acc.srt_lines
                            \o CueLines(acc.cue_index, segment, i, words[i + 1]),
            cue_index |-> acc.cue_index + 1])

RECURSIVE SegmentLoopReset(_, _, _)
\* mutant of SegmentLoop: cue_index starts again at 1 in every segment
SegmentLoopReset(segments, k, acc) ==
    IF k > Len(segments) THEN acc
    ELSE LET words == SegmentWords(segments[k])
         IN  IF words = <<>>
             THEN SegmentLoopReset(segments, k + 1, acc)
             ELSE SegmentLoopReset(segments, k + 1,
                    WordLoop(segments[k], words, 0,
                             [srt_lines |-> acc.srt_lines, cue_index |-> 1]))

RECURSIVE SegmentLoop(_, _, _)
\* the outer loop (lines 65-88) from segment k on
SegmentLoop(segments, k, acc) ==
    IF k > Len(segments) THEN acc
    ELSE LET words == SegmentWords(segments[k])
         IN  IF words = <<>>
             THEN SegmentLoop(segments, k + 1, acc)
             ELSE SegmentLoop(segments, k + 1,
                              WordLoop(segments[k], words, 0, acc))

\* the locals srt_lines and cue_index when the loops end (lines 62-88)
SrtLoops(segments) ==
    SegmentLoop(segments, 1, [srt_lines |-> <<>>, cue_index |-> 1])

\* the text handed to f.write (line 91)
SrtText(srt_lines) == Join(srt_lines, <<"\n">>)

\* -------------------------------------------------------------- paths
\* the last index of token c in path p, 0 when there is none (str.rfind)
RFind(p, c) ==
    LET hits == {i \in 1..Len(p) : p[i] = c}
    IN  IF hits = {} THEN 0 ELSE CHOOSE i \in hits : \A j \in hits : j <= i

\* os.path.splitext(p)[0] (line 178): the path without its extension.  The
\* extension starts at the last dot that follows the last separator and is
\* preceded, in the file name, by at least one character that is not a dot.
SplitextRoot(p) ==
    LET sepIndex == RFind(p, "/")
        dotIndex == RFind(p, ".")
    IN  IF dotIndex > sepIndex
           /\ \E k \in (sepIndex + 1)..(dotIndex - 1) : p[k] # "."
        THEN SubSeq(p, 1, dotIndex - 1)
        ELSE p

\* lines 179-182
SrtPathOf(base) == base \o <<".", "srt">>

OutputVideoPathOf(base) == base \o <<"_output", ".", "mp4">>

PalettePathOf(base) == base \o <<"_palette", ".", "png">>

GifPathOf(base) == base \o <<".", "gif">>

\* ------------------------------------------------------------- inputs
PathAtoms == {"c", ".", "/", "srt", "gif", "mp4"}

Paths == UNION {[1..n -> PathAtoms] : n \in 1..MaxPathLen}

\* further arguments
ShortPaths == {<<"c">>, <<".", "gif">>}

Prog == <<"generateSub2Gif", ".", "py">>

ClipMp4 == <<"c", ".", "mp4">>

RECURSIVE ArgLists(_)
\* the argument lists of n arguments: any path first, short paths after it
ArgLists(n) ==
    IF n = 0 THEN {<<>>}
    ELSE IF n = 1 THEN {<<p>> : p \in Paths}
    ELSE {Append(a, q) : a \in ArgLists(n - 1), q \in ShortPaths}

\* sys.argv: the program's name, then the arguments
ArgvSet == {<<Prog>> \o a : a \in UNION {ArgLists(n) : n \in 0..MaxArgs}}

\* the float of a decimal literal num/den: the nearest float
FloatOfDecimal(num, den) == FloatDivInt(FloatOfInt(num), den)

\* the segments' <<start, end>> in seconds, start < end
TimePairs ==
    { <<FloatOfInt(0), FloatOfInt(1)>>,
      <<FloatOfInt(0), FloatOfInt(3)>>,
      <<FloatOfInt(1), FloatOfDecimal(599996, 10000)>>,
      <<FloatOfDecimal(599996, 10000), FloatOfDecimal(366125, 100)>>,
      <<FloatOfDecimal(35, 100), FloatOfInt(4)>>,
      <<FloatOfDecimal(7, 100), FloatOfDecimal(6, 10)>> }

Letters == {"a", "b"}

RECURSIVE Tight(_)
\* words joined by single blanks
Tight(ws) ==
    IF ws = <<>> THEN <<>>
    ELSE IF Len(ws) = 1 THEN <<ws[1]>>
    ELSE <<ws[1], " ">> \o Tight(Tail(ws))

RECURSIVE Loose(_)
\* each word after a blank, before a tab
Loose(ws) ==
    IF ws = <<>> THEN <<>> ELSE <<" ", ws[1], "\t">> \o Loose(Tail(ws))

\* texts of up to MaxWords one-letter words: any words tightly spaced, and
\* the same word again and again loosely spaced
Texts ==
    UNION {{Tight(ws) : ws \in [1..n -> Letters]}
             \cup {Loose([i \in 1..n |-> "a"]) \o <<"\n">>}
           : n \in 0..MaxWords}

HelloWorld == <<"h", "e", "l", "l", "o", " ", "w", "o", "r", "l", "d">>

HelloSegment ==
    [start |-> FloatOfInt(1), end |-> FloatOfInt(2), text |-> HelloWorld]

Segments ==
    {[start |-> tp[1], end |-> tp[2], text |-> t] : tp \in TimePairs, t \in Texts}
      \cup {HelloSegment}

\* the segments that follow the first one
TailSegments ==
    { [start |-> FloatOfInt(2), end |-> FloatOfInt(3), text |-> <<" ", "\n">>],
      [start |-> FloatOfInt(0), end |-> FloatOfInt(1), text |-> <<"a", " ", "b">>] }

RECURSIVE SegmentLists(_)
SegmentLists(n) ==
    IF n = 0 THEN {<<>>}
    ELSE IF n = 1 THEN {<<sg>> : sg \in Segments}
    ELSE {Append(l, sg) : l \in SegmentLists(n - 1), sg \in TailSegments}

\* what the transcriber may return for the video
Transcripts == UNION {SegmentLists(n) : n \in 0..MaxSegs}

FewTranscripts == {<<HelloSegment>>}

\* --------------------------------------------------------------- state
VARIABLES
    argv,                 \* sys.argv
    audio,                \* the segments the transcriber finds in the video
    pc,                   \* the next statement of main / process_video
    running,              \* the stage being executed, "none" between stages
    exit_status,          \* <<>> while the process runs, then <<status>>
    stdout,               \* the messages printed so far
    trace,                \* history: <<stage, "call" | "return" | "raise">>
    files,                \* the disk: path -> [kind, complete, data]
    model,                \* process_video's local model
    input_video,
    base_name,
    srt_file_path,
    output_video_path,
    palette_file_path,
    gif_file_path,
    transcription_result,
    srt_lines,            \* locals of generate_word_by_word_srt
    cue_index

pathVars == <<input_video, base_name, srt_file_path, output_video_path,
              palette_file_path, gif_file_path>>

srtVars == <<srt_lines, cue_index>>

envVars == <<argv, audio>>

vars == <<argv, audio, pc, running, exit_status, stdout, trace, files, model,
          input_video, base_name, srt_file_path, output_video_path,
          palette_file_path, gif_file_path, transcription_result,
          srt_lines, cue_index>>

Stages == <<"load_whisper_model", "transcribe_video",
            "generate_word_by_word_srt", "burn_subtitles",
            "generate_palette", "convert_to_gif">>

\* mutant of StageAfter: the palette is generated before the render
StageAfterSwapped(stage) ==
    CASE stage = "load_whisper_model"        -> "transcribe_video"
      [] stage = "transcribe_video"          -> "generate_word_by_word_srt"
      [] stage = "generate_word_by_word_srt" -> "generate_palette"
      [] stage = "generate_palette"          -> "burn_subtitles"
      [] stage = "burn_subtitles"            -> "convert_to_gif"
      [] stage = "convert_to_gif"            -> "process_video_end"

\* the order of the calls in process_video (lines 184-191)
StageAfter(stage) ==
    CASE stage = "load_whisper_model"        -> "transcribe_video"
      [] stage = "transcribe_video"          -> "generate_word_by_word_srt"
      [] stage = "generate_word_by_word_srt" -> "burn_subtitles"
      [] stage = "burn_subtitles"            -> "generate_palette"
      [] stage = "generate_palette"          -> "convert_to_gif"
      [] stage = "convert_to_gif"            -> "process_video_end"

NoPath == <<>>

NoResult == [segments |-> <<>>]

InputFile == [kind |-> "input", complete |-> TRUE, data |-> <<>>]

Artifact(kind, data) == [kind |-> kind, complete |-> TRUE, data |-> data]

Partial(kind) == [kind |-> kind, complete |-> FALSE, data |-> <<>>]

\* open(path, "w") / ffmpeg -y: the file is created or replaced
WriteFile(fs, path, file) == (path :> file) @@ fs

\* mutant of FailedWrite: the failure handler removes the intermediate files
FailedWriteCleanup(fs, path, kind) ==
    {[p \in DOMAIN fs \ {srt_file_path, output_video_path, palette_file_path}
        |-> fs[p]]}

\* a writer that fails leaves the disk as it was or leaves a partial file
FailedWrite(fs, path, kind) == {fs, WriteFile(fs, path, Partial(kind))}

\* the files named on the command line exist
InitialFiles(av) == [p \in {av[i] : i \in 2..Len(av)} |-> InputFile]

Init ==
    /\ \/ argv \in ArgvSet /\ audio \in FewTranscripts
       \/ argv = <<Prog, ClipMp4>> /\ audio \in Transcripts
    /\ pc = "main"
    /\ running = "none"
    /\ exit_status = <<>>
    /\ stdout = <<>>
    /\ trace = <<>>
    /\ files = InitialFiles(argv)
    /\ model = "none"
    /\ input_video = NoPath
    /\ base_name = NoPath
    /\ srt_file_path = NoPath
    /\ output_video_path = NoPath
    /\ palette_file_path = NoPath
    /\ gif_file_path = NoPath
    /\ transcription_result = NoResult
    /\ srt_lines = <<>>
    /\ cue_index = 0

\* --------------------------------------------------------------- main
\* mutant of UsageError: only a missing argument is refused
UsageErrorTooFew(av) == Len(av) < 2

\* line 198
UsageError(av) == Len(av) # 2

\* lines 198-200
main_usage ==
    /\ pc = "main"
    /\ UsageError(argv)
    /\ stdout' = Append(stdout, "Usage: python generateSub2Gif.py <input_video>")
    /\ exit_status' = <<1>>
    /\ pc' = "exit"
    /\ UNCHANGED <<envVars, running, trace, files, model, pathVars,
                   transcription_result, srtVars>>

\* lines 202-203 and 178-182: the call of process_video and its path locals
process_video_start ==
    /\ pc = "main"
    /\ ~UsageError(argv)
    /\ input_video' = argv[2]
    /\ base_name' = SplitextRoot(argv[2])
    /\ srt_file_path' = SrtPathOf(SplitextRoot(argv[2]))
    /\ output_video_path' = OutputVideoPathOf(SplitextRoot(argv[2]))
    /\ palette_file_path' = PalettePathOf(SplitextRoot(argv[2]))
    /\ gif_file_path' = GifPathOf(SplitextRoot(argv[2]))
    /\ pc' = "load_whisper_model"
    /\ UNCHANGED <<envVars, running, exit_status, stdout, trace, files, model,
                   transcription_result, srtVars>>

\* a stage is entered: its first print
Call(stage, message) ==
    /\ pc = stage
    /\ running = "none"
    /\ running' = stage
    /\ stdout' = Append(stdout, message)
    /\ trace' = Append(trace, <<stage, "call">>)
    /\ UNCHANGED <<envVars, pc, exit_status, pathVars>>

\* a stage returns to process_video, which goes on to the next call
Return(stage) ==
    /\ running = stage
    /\ running' = "none"
    /\ pc' = StageAfter(stage)
    /\ trace' = Append(trace, <<stage, "return">>)
    /\ UNCHANGED <<envVars, exit_status, pathVars>>

\* mutant of Raise: the failure is swallowed (check=False, except: pass) and
\* process_video goes on to the next call
RaiseSwallowed(stage) ==
    /\ running = stage
    /\ running' = "none"
    /\ pc' = StageAfter(stage)
    /\ exit_status' = exit_status
    /\ trace' = Append(trace, <<stage, "raise">>)
    /\ UNCHANGED <<envVars, stdout, pathVars, model, transcription_result, srtVars>>

\* a stage raises (the library's exception, CalledProcessError, OSError);
\* nothing catches it: the interpreter ends with status 1
Raise(stage) ==
    /\ running = stage
    /\ running' = "none"
    /\ pc' = "exit"
    /\ exit_status' = <<1>>
    /\ trace' = Append(trace, <<stage, "raise">>)
    /\ UNCHANGED <<envVars, stdout, pathVars, model, transcription_result, srtVars>>

\* ------------------------------------------------- load_whisper_model
load_whisper_model_call ==
    /\ Call("load_whisper_model", "Loading Whisper model")
    /\ UNCHANGED <<files, model, transcription_result, srtVars>>

load_whisper_model_return ==
    /\ Return("load_whisper_model")
    /\ model' = "small"
    /\ UNCHANGED <<stdout, files, transcription_result, srtVars>>

load_whisper_model_raise ==
    /\ Raise("load_whisper_model")
    /\ UNCHANGED files

\* --------------------------------------------------- transcribe_video
transcribe_video_call ==
    /\ Call("transcribe_video", "Transcribing video")
    /\ UNCHANGED <<files, model, transcription_result, srtVars>>

transcribe_video_return ==
    /\ Return("transcribe_video")
    /\ transcription_result' = [segments |-> audio]
    /\ UNCHANGED <<stdout, files, model, srtVars>>

transcribe_video_raise ==
    /\ Raise("transcribe_video")
    /\ UNCHANGED files

\* ------------------------------------------ generate_word_by_word_srt
\* lines 61-63
generate_word_by_word_srt_call ==
    /\ Call("generate_word_by_word_srt", "Generating word-by-word SRT file")
    /\ srt_lines' = <<>>
    /\ cue_index' = 1
    /\ UNCHANGED <<files, model, transcription_result>>

\* lines 65-92: the loops, the write and the last print
generate_word_by_word_srt_return ==
    /\ Return("generate_word_by_word_srt")
    /\ srt_lines' = SrtLoops(transcription_result.segments).srt_lines
    /\ cue_index' = SrtLoops(transcription_result.segments).cue_index
    /\ files' = WriteFile(files, srt_file_path,
                   Artifact("srt",
                     SrtText(SrtLoops(transcription_result.segments).srt_lines)))
    /\ stdout' = Append(stdout, "Done writing SRT")
    /\ UNCHANGED <<model, transcription_result>>

\* lines 90-91: open or write raises OSError
generate_word_by_word_srt_raise ==
    /\ Raise("generate_word_by_word_srt")
    /\ files' \in FailedWrite(files, srt_file_path, "srt")

\* ----------------------------------------------------- burn_subtitles
burn_subtitles_call ==
    /\ Call("burn_subtitles", "Burning subtitles into video")
    /\ UNCHANGED <<files, model, transcription_result, srtVars>>

\* lines 123-124: ffmpeg exits 0
burn_subtitles_return ==
    /\ Return("burn_subtitles")
    /\ files' = WriteFile(files, output_video_path, Artifact("mp4", <<>>))
    /\ stdout' = Append(stdout, "Done burning subtitles")
    /\ UNCHANGED <<model, transcription_result, srtVars>>

\* line 123: ffmpeg exits non-zero, check=True raises
burn_subtitles_raise ==
    /\ Raise("burn_subtitles")
    /\ files' \in FailedWrite(files, output_video_path, "mp4")

\* --------------------------------------------------- generate_palette
generate_palette_call ==
    /\ Call("generate_palette", "Generating palette for GIF")
    /\ UNCHANGED <<files, model, transcription_result, srtVars>>

generate_palette_return ==
    /\ Return("generate_palette")
    /\ files' = WriteFile(files, palette_file_path, Artifact("png", <<>>))
    /\ stdout' = Append(stdout, "Done generating palette")
    /\ UNCHANGED <<model, transcription_result, srtVars>>

generate_palette_raise ==
    /\ Raise("generate_palette")
    /\ files' \in FailedWrite(files, palette_file_path, "png")

\* ----------------------------------------------------- convert_to_gif
convert_to_gif_call ==
    /\ Call("convert_to_gif", "Converting to animated GIF")
    /\ UNCHANGED <<files, model, transcription_result, srtVars>>

convert_to_gif_return ==
    /\ Return("convert_to_gif")
    /\ files' = WriteFile(files, gif_file_path, Artifact("gif", <<>>))
    /\ stdout' = Append(stdout, "Done converting to GIF")
    /\ UNCHANGED <<model, transcription_result, srtVars>>

convert_to_gif_raise ==
    /\ Raise("convert_to_gif")
    /\ files' \in FailedWrite(files, gif_file_path, "gif")

\* line 191, then main returns: the process ends with status 0
process_video_return ==
    /\ pc = "process_video_end"
    /\ running = "none"
    /\ stdout' = Append(stdout, "Done! Animated GIF saved")
    /\ pc' = "exit"
    /\ exit_status' = <<0>>
    /\ UNCHANGED <<envVars, running, trace, files, model, pathVars,
                   transcription_result, srtVars>>

Next ==
    \/ main_usage
    \/ process_video_start
    \/ load_whisper_model_call
    \/ load_whisper_model_return
    \/ load_whisper_model_raise
    \/ transcribe_video_call
    \/ transcribe_video_return
    \/ transcribe_video_raise
    \/ generate_word_by_word_srt_call
    \/ generate_word_by_word_srt_return
    \/ generate_word_by_word_srt_raise
    \/ burn_subtitles_call
    \/ burn_subtitles_return
    \/ burn_subtitles_raise
    \/ generate_palette_call
    \/ generate_palette_return
    \/ generate_palette_raise
    \/ convert_to_gif_call
    \/ convert_to_gif_return
    \/ convert_to_gif_raise
    \/ process_video_return

Spec == Init /\ [][Next]_vars

\* ------------------------------------------------------- the history
Called(stage) == \E i \in 1..Len(trace) : trace[i] = <<stage, "call">>

Returned(stage) == \E i \in 1..Len(trace) : trace[i] = <<stage, "return">>

Raised(stage) == \E i \in 1..Len(trace) : trace[i] = <<stage, "raise">>

CallCount(stage) ==
    Cardinality({i \in 1..Len(trace) : trace[i] = <<stage, "call">>})

\* the artifact a stage writes: <<path, kind>>, <<>> for a stage that writes none
Writes(stage) ==
    CASE stage = "generate_word_by_word_srt" -> <<srt_file_path, "srt">>
      [] stage = "burn_subtitles"            -> <<output_video_path, "mp4">>
      [] stage = "generate_palette"          -> <<palette_file_path, "png">>
      [] stage = "convert_to_gif"            -> <<gif_file_path, "gif">>
      [] OTHER                               -> <<>>

UsageMessage == "Usage: python generateSub2Gif.py <input_video>"

\* ---------------------------------------------------------------- C1
\* C1: once a stage has failed (its call raised), the process has ended with
\* status 1, the failure is the last event of the run, no later stage was
\* ever called, and the failed stage was called exactly once (no retry).
C1_FailureAbortsPipeline ==
    \A k \in 1..Len(Stages) :
        Raised(Stages[k]) =>
            /\ pc = "exit"
            /\ exit_status = <<1>>
            /\ running = "none"
            /\ trace[Len(trace)] = <<Stages[k], "raise">>
            /\ CallCount(Stages[k]) = 1
            /\ \A j \in (k + 1)..Len(Stages) : ~Called(Stages[j])

\* the render step failed after the subtitle file was written
C1_Witness ==
    /\ Raised("burn_subtitles")
    /\ Returned("generate_word_by_word_srt")
    /\ pc = "exit"

\* ---------------------------------------------------------------- C2
\* C2: the events of a run are call, return, call, return, ... of the stages
\* in the fixed order: stage k is called at most once, as event 2k-1, right
\* after stage k-1 returned, so that at most one stage is in progress, and
\* it is the one process_video is waiting for.
C2_StagesInOrder ==
    /\ \A i \in 1..Len(trace) :
          trace[i][2] = "call" =>
              /\ i % 2 = 1
              /\ (i + 1) \div 2 <= Len(Stages)
              /\ trace[i][1] = Stages[(i + 1) \div 2]
              /\ i > 1 => trace[i - 1] = <<Stages[(i - 1) \div 2], "return">>
    /\ \A k \in 1..Len(Stages) : CallCount(Stages[k]) <= 1
    /\ \A k \in 1..Len(Stages) :
          (Called(Stages[k]) /\ ~Returned(Stages[k]) /\ ~Raised(Stages[k]))
              <=> running = Stages[k]

\* all five stages of the claim ran, the last one still in progress
C2_Witness ==
    /\ running = "convert_to_gif"
    /\ Returned("transcribe_video")
    /\ Returned("generate_word_by_word_srt")
    /\ Returned("burn_subtitles")
    /\ Returned("generate_palette")

\* ---------------------------------------------------------------- C7
\* C7: with an argument count other than one, nothing but the usage message
\* happens: no stage is called, no file is written, no local is set, and the
\* process ends with status 1; with exactly one argument process_video runs
\* on that argument and the usage message is never printed.
C7_UsageBeforeAnyWork ==
    /\ Len(argv) # 2 =>
          /\ trace = <<>>
          /\ running = "none"
          /\ files = InitialFiles(argv)
          /\ model = "none"
          /\ input_video = NoPath
          /\ pc \in {"main", "exit"}
          /\ pc = "main" => stdout = <<>> /\ exit_status = <<>>
          /\ pc = "exit" => stdout = <<UsageMessage>> /\ exit_status = <<1>>
    /\ Len(argv) = 2 =>
          /\ pc # "main" => input_video = argv[2]
          /\ \A i \in 1..Len(stdout) : stdout[i] # UsageMessage

\* two arguments were given and the process has ended
C7_Witness ==
    /\ Len(argv) = 3
    /\ pc = "exit"
    /\ exit_status = <<1>>
    /\ stdout = <<UsageMessage>>

\* ---------------------------------------------------------------- C9
\* the artifacts of the stages before a failed stage k are complete on disk
\* and none of the stages after k exists as an artifact
FailureLeavesArtifacts ==
    \A k \in 1..Len(Stages) :
        Raised(Stages[k]) =>
            /\ \A j \in 1..(k - 1) :
                  Writes(Stages[j]) # <<>> =>
                      /\ Writes(Stages[j])[1] \in DOMAIN files
                      /\ files[Writes(Stages[j])[1]].kind = Writes(Stages[j])[2]
                      /\ files[Writes(Stages[j])[1]].complete
            /\ \A j \in (k + 1)..Len(Stages) :
                  Writes(Stages[j]) # <<>> =>
                      \/ Writes(Stages[j])[1] \notin DOMAIN files
                      \/ files[Writes(Stages[j])[1]].kind # Writes(Stages[j])[2]

\* C9: no step removes a file, a step changes no file but the one the stage
\* that ends in this step writes, and after a failure of stage k the
\* artifacts of the stages before k are in place and none of a later stage
\* was created.
C9_ArtifactsPersist ==
    [][ /\ \A p \in DOMAIN files :
              /\ p \in DOMAIN files'
              /\ files'[p] # files[p] =>
                    /\ Writes(running) # <<>>
                    /\ p = Writes(running)[1]
        /\ FailureLeavesArtifacts' ]_vars

\* the last stage failed; the three intermediate files are in place
C9_Witness ==
    /\ Raised("convert_to_gif")
    /\ {srt_file_path, output_video_path, palette_file_path} \subseteq DOMAIN files
    /\ files[palette_file_path] = Artifact("png", <<>>)

\* --------------------------------------------------------------- C10
\* C10 as stated: the four artifact paths are pairwise distinct, none is the
\* input path, and the input video is never overwritten.
C10_ArtifactPathsAvoidInput ==
    input_video # NoPath =>
        /\ Cardinality({srt_file_path, output_video_path,
                        palette_file_path, gif_file_path}) = 4
        /\ input_video \notin {srt_file_path, output_video_path,
                               palette_file_path, gif_file_path}
        /\ files[input_video] = InputFile

\* ------------------------------------------- reading a subtitle file
IsDigit(c) == \E d \in 1..Len(DigitChars) : DigitChars[d] = c

DigitValue(c) == (CHOOSE d \in 1..Len(DigitChars) : DigitChars[d] = c) - 1

IsNumber(s) == s # <<>> /\ \A i \in 1..Len(s) : IsDigit(s[i])

RECURSIVE ParseInt(_)
ParseInt(s) ==
    IF s = <<>> THEN 0
    ELSE 10 * ParseInt(SubSeq(s, 1, Len(s) - 1)) + DigitValue(s[Len(s)])

\* HH:MM:SS,mmm with exactly two, two, two and three digits
IsTimestampForm(s) ==
    /\ Len(s) = 12
    /\ s[3] = ":" /\ s[6] = ":" /\ s[9] = ","
    /\ \A i \in {1, 2, 4, 5, 7, 8, 10, 11, 12} : IsDigit(s[i])

\* the milliseconds a well-formed timestamp stands for
TimestampMillis(s) ==
    ((ParseInt(SubSeq(s, 1, 2)) * 60 + ParseInt(SubSeq(s, 4, 5))) * 60
        + ParseInt(SubSeq(s, 7, 8))) * 1000 + ParseInt(SubSeq(s, 10, 12))

IsTimeLine(s) ==
    /\ Len(s) = 29
    /\ IsTimestampForm(SubSeq(s, 1, 12))
    /\ SubSeq(s, 13, 17) = Arrow
    /\ IsTimestampForm(SubSeq(s, 18, 29))

RECURSIVE LinesFrom(_, _, _, _)
\* the lines of a text: the pieces between line feeds
LinesFrom(text, i, line, lines) ==
    IF i > Len(text) THEN Append(lines, line)
    ELSE IF text[i] = "\n"
         THEN LinesFrom(text, i + 1, <<>>, Append(lines, line))
         ELSE LinesFrom(text, i + 1, Append(line, text[i]), lines)

RECURSIVE DropBlankTail(_)
DropBlankTail(lines) ==
    IF lines # <<>> /\ lines[Len(lines)] = <<>>
    THEN DropBlankTail(SubSeq(lines, 1, Len(lines) - 1))
    ELSE lines

\* what a file that is not a sequence of such blocks reads as: one cue with
\* the index 0, which no block has
Malformed == << <<0, 0, 0, <<>>>> >>

RECURSIVE ParseBlocks(_, _, _)
\* blocks of an index line, a time line and a text line, each followed by a
\* blank line or by the end of the file
ParseBlocks(lines, k, cues) ==
    IF k > Len(lines) THEN cues
    ELSE IF /\ k + 2 <= Len(lines)
            /\ IsNumber(lines[k])
            /\ IsTimeLine(lines[k + 1])
            /\ lines[k + 2] # <<>>
            /\ (k + 3 <= Len(lines) => lines[k + 3] = <<>>)
         THEN ParseBlocks(lines, k + 4,
                Append(cues, << ParseInt(lines[k]),
                                TimestampMillis(SubSeq(lines[k + 1], 1, 12)),
                                TimestampMillis(SubSeq(lines[k + 1], 18, 29)),
                                lines[k + 2] >>))
         ELSE Malformed

\* the (index, start ms, end ms, word) tuples of a subtitle text
ParseSrt(text) == ParseBlocks(DropBlankTail(LinesFrom(text, 1, <<>>, <<>>)), 1, <<>>)

\* the time t in milliseconds, rounded to the nearest one (ties to even):
\* the exact product 1000 * t, rounded once
Millis(t) ==
    IF t.e >= 0 THEN BigToInt(BigShiftLeft(BigMulSmall(t.m, 1000), t.e))
    ELSE BigToInt(BigShiftRightRound(BigMulSmall(t.m, 1000), -t.e))

\* ------------------------------------------------ the cues of a run
SrtDone == Returned("generate_word_by_word_srt")

\* generate_word_by_word_srt has just returned
SrtReturns ==
    trace # <<>> /\ trace[Len(trace)] = <<"generate_word_by_word_srt", "return">>

\* the whitespace-delimited words of a text, counted at their first characters
CountWords(text) ==
    Cardinality({i \in 1..Len(text) :
                    /\ text[i] \notin Whitespace
                    /\ (i = 1 \/ text[i - 1] \in Whitespace)})

RECURSIVE WordsBefore(_, _)
\* the number of words of the segments before segment k
WordsBefore(segments, k) ==
    IF k <= 1 THEN 0
    ELSE WordsBefore(segments, k - 1) + CountWords(segments[k - 1].text)

RECURSIVE Concat(_)
Concat(ss) == IF ss = <<>> THEN <<>> ELSE Head(ss) \o Concat(Tail(ss))

RemoveWhitespace(text) == SelectSeq(text, LAMBDA c : c \notin Whitespace)

\* line j (1..4) of cue number c in srt_lines
CueLine(c, j) == srt_lines[4 * (c - 1) + j]

\* ---------------------------------------------------------------- C3
HelloExpected ==
    << "1", "\n",
       "0", "0", ":", "0", "0", ":", "0", "1", ",", "0", "0", "0",
       " ", "-", "-", ">", " ",
       "0", "0", ":", "0", "0", ":", "0", "1", ",", "5", "0", "0", "\n",
       "h", "e", "l", "l", "o", "\n",
       "\n",
       "2", "\n",
       "0", "0", ":", "0", "0", ":", "0", "1", ",", "5", "0", "0",
       " ", "-", "-", ">", " ",
       "0", "0", ":", "0", "0", ":", "0", "2", ",", "0", "0", "0", "\n",
       "w", "o", "r", "l", "d", "\n",
       "\n" >>

\* C3 as stated: for the one segment {1.0, 2.0, "hello world"} the text
\* written to the subtitle file is HelloExpected, which ends with a blank
\* line after the last cue.
C3_HelloWorldFile ==
    (SrtDone /\ transcription_result.segments = <<HelloSegment>>) =>
        files[srt_file_path].data = HelloExpected

\* ---------------------------------------------------------------- C4
\* C4 as stated: every time below 3600 s that is formatted has the
\* fixed-width form DD:DD:DD,DDD and reads back as the time rounded to the
\* nearest millisecond; srt_timestamp(0.0) and srt_timestamp(3661.25) are
\* the two strings of the claim.
C4_TimestampFixedWidth ==
    SrtDone =>
        /\ \A k \in 1..Len(transcription_result.segments) :
              LET segment == transcription_result.segments[k]
              IN  \A i \in 0..(CountWords(segment.text) - 1) :
                      \A t \in {word_start(segment, i), word_end(segment, i)} :
                          FloatLess(t, FloatOfInt(3600)) =>
                              /\ IsTimestampForm(srt_timestamp(t))
                              /\ TimestampMillis(srt_timestamp(t)) = Millis(t)
        /\ srt_timestamp(FloatOfInt(0))
             = <<"0", "0", ":", "0", "0", ":", "0", "0", ",", "0", "0", "0">>
        /\ srt_timestamp(FloatOfDecimal(366125, 100))
             = <<"0", "1", ":", "0", "1", ":", "0", "1", ",", "2", "5", "0">>

\* ---------------------------------------------------------------- C5
\* |a - b|
AbsDiff(a, b) == IF BigLess(a, b) THEN BigSub(b, a) ELSE BigSub(a, b)

\* the least exponent of the times of a segment of n words: all of them
\* are whole multiples of 2^GridOf
GridOf(segment, n) ==
    LET es == {segment.start.e, segment.end.e}
                \cup {word_start(segment, i).e : i \in 0..n}
    IN  CHOOSE e \in es : \A f \in es : e <= f

\* |a - b| <= bound * 2^(-49), all three over the same power of two
Within(a, b, bound) == ~BigLess(bound, BigShiftLeft(AbsDiff(a, b), 49))

\* C5 as stated: when the writer returns, for every segment with
\* end > start and n >= 1 words the first interval begins at start, each
\* ends where the next begins, all have the same length, and the last ends
\* exactly at end.
C5_ExactPartition ==
    SrtReturns =>
        \A k \in 1..Len(transcription_result.segments) :
            LET segment == transcription_result.segments[k]
                n       == CountWords(segment.text)
            IN  (n >= 1 /\ FloatLess(segment.start, segment.end)) =>
                    /\ word_start(segment, 0) = segment.start
                    /\ word_end(segment, n - 1) = segment.end
                    /\ \A i \in 0..(n - 2) :
                          word_end(segment, i) = word_start(segment, i + 1)
                    /\ \A i \in 0..(n - 1) :
                          LET e == GridOf(segment, n)
                          IN  BigSub(Aligned(word_end(segment, i), e),
                                     Aligned(word_start(segment, i), e))
                                = BigSub(Aligned(word_end(segment, 0), e),
                                         Aligned(word_start(segment, 0), e))

\* C5 as amended: when the writer returns, for every segment with
\* end > start and n >= 1 words the first interval begins exactly at start,
\* each ends exactly where the next begins and none ends before it begins;
\* the bounds of word i, the length of its interval and the end of the last
\* interval equal start + i*d, d = (end - start)/n and end up to the
\* rounding of the float operations (at most end * 2^(-49)), not exactly;
\* the emitted time lines are these bounds and the emitted words are the
\* segment's words in the order of the text.
C5_WordIntervalsPartitionSegment ==
    SrtReturns =>
        \A k \in 1..Len(transcription_result.segments) :
            LET segment == transcription_result.segments[k]
                n       == CountWords(segment.text)
                first   == WordsBefore(transcription_result.segments, k)
            IN  (n >= 1 /\ FloatLess(segment.start, segment.end)) =>
                    /\ word_start(segment, 0) = segment.start
                    /\ \A i \in 0..(n - 2) :
                          word_end(segment, i) = word_start(segment, i + 1)
                    /\ \A i \in 0..(n - 1) :
                          LET e     == GridOf(segment, n)
                              start == Aligned(segment.start, e)
                              end   == Aligned(segment.end, e)
                              ws    == Aligned(word_start(segment, i), e)
                              we    == Aligned(word_end(segment, i), e)
                              span  == BigSub(end, start)
                              bound == BigMulSmall(end, n)
                          IN  /\ ~BigLess(we, ws)
                              \* n * word_start = n * start + i * (end - start)
                              /\ Within(BigMulSmall(ws, n),
                                        BigAdd(BigMulSmall(start, n),
                                               BigMulSmall(span, i)), bound)
                              \* n * word_end = n * start + (i+1) * (end - start)
                              /\ Within(BigMulSmall(we, n),
                                        BigAdd(BigMulSmall(start, n),
                                               BigMulSmall(span, i + 1)), bound)
                              \* n * (word_end - word_start) = end - start
                              /\ Within(BigMulSmall(BigSub(we, ws), n), span, bound)
                              /\ i = n - 1 => Within(we, end, end)
                              /\ CueLine(first + i + 1, 2)
                                   = srt_timestamp(word_start(segment, i)) \o Arrow
                                       \o srt_timestamp(word_end(segment, i))
                    /\ Concat([i \in 1..n |-> CueLine(first + i, 3)])
                         = RemoveWhitespace(segment.text)
                    /\ \A i \in 1..n :
                          /\ CueLine(first + i, 3) # <<>>
                          /\ \A j \in 1..Len(CueLine(first + i, 3)) :
                                CueLine(first + i, 3)[j] \notin Whitespace

\* a segment from 0.35 to 4.0 s of three words was emitted; its last
\* interval ends just below 4.0
C5_Witness ==
    /\ SrtDone
    /\ Len(transcription_result.segments) >= 1
    /\ transcription_result.segments[1].start = FloatOfDecimal(35, 100)
    /\ transcription_result.segments[1].end = FloatOfInt(4)
    /\ CountWords(transcription_result.segments[1].text) = 3
    /\ FloatLess(word_end(transcription_result.segments[1], 2), FloatOfInt(4))

\* ---------------------------------------------------------------- C6
\* C6: the emitted cues are numbered 1, 2, ..., N in emission order, N the
\* number of whitespace-delimited words of all segments; the counter ends
\* at N + 1, is not reset between segments (the first cue of segment k has
\* the number of words before k, plus one), and a segment without words
\* emits nothing and uses no number.
C6_CueIndicesSequential ==
    SrtDone =>
        LET segments == transcription_result.segments
            N        == WordsBefore(segments, Len(segments) + 1)
        IN  /\ Len(srt_lines) = 4 * N
            /\ cue_index = N + 1
            /\ \A c \in 1..N :
                  /\ IsNumber(CueLine(c, 1))
                  /\ ParseInt(CueLine(c, 1)) = c
                  /\ CueLine(c, 4) = <<>>
            /\ \A k \in 1..Len(segments) :
                  CountWords(segments[k].text) >= 1 =>
                      /\ ParseInt(CueLine(WordsBefore(segments, k) + 1, 1))
                           = WordsBefore(segments, k) + 1
                      /\ CueLine(WordsBefore(segments, k) + 1, 3)
                           = SegmentWords(segments[k])[1]

\* three segments, the middle one only whitespace: the third goes on
\* counting where the first stopped
C6_Witness ==
    /\ SrtDone
    /\ Len(transcription_result.segments) = 3
    /\ CountWords(transcription_result.segments[1].text) = 2
    /\ CountWords(transcription_result.segments[2].text) = 0
    /\ transcription_result.segments[2].text # <<>>
    /\ CountWords(transcription_result.segments[3].text) = 2
    /\ cue_index = 5

\* ---------------------------------------------------------------- C8
RECURSIVE ExpectedCues(_, _, _, _)
\* the (index, start ms, end ms, word) tuples of the cues, from word i
\* (0-based) of segment k on
ExpectedCues(segments, k, i, cues) ==
    IF k > Len(segments) THEN cues
    ELSE IF i >= Len(SegmentWords(segments[k]))
         THEN ExpectedCues(segments, k + 1, 0, cues)
         ELSE ExpectedCues(segments, k, i + 1,
                Append(cues, << Len(cues) + 1,
                                Millis(word_start(segments[k], i)),
                                Millis(word_end(segments[k], i)),
                                SegmentWords(segments[k])[i + 1] >>))

\* C8 as stated: reading the written subtitle file block by block gives
\* back the cues: index, start and end rounded to the millisecond, word.
C8_RoundTrip ==
    SrtDone =>
        ParseSrt(files[srt_file_path].data)
            = ExpectedCues(transcription_result.segments, 1, 0, <<>>)

====
